---- MODULE Spec2Model ----
(***************************************************************************)
(* Model of fetch_summarize_jira/fastapi_backend.py: the tool-call         *)
(* endpoint call_tool, the issue fetcher fetch_jira_issue, the summarizer  *)
(* llm_summarize_issue, the retry helper with_retry and the flattener      *)
(* adf_to_text.  One behaviour of Spec is one request handled by           *)
(* call_tool, and SpecLive is Spec with fairness of its steps; one         *)
(* behaviour of SpecRetry is one run of with_retry on an arbitrary         *)
(* operation; one behaviour of SpecFlatten builds a tree and runs          *)
(* adf_to_text on it.                                                      *)
(***************************************************************************)
EXTENDS Integers, Sequences, FiniteSets, TLC

VARIABLES
    JIRA_BASE_URL,       \* module-level settings, read once at import
    JIRA_EMAIL,
    JIRA_API_TOKEN,
    OPENAI_API_KEY,
    INTERNAL_API_TOKEN,
    request,             \* the request body and the x-internal-token header
    pc,                  \* position of the handler
    rt,                  \* locals of the running with_retry call
    issue_response,      \* fetch_jira_issue's local issue_response
    comment_response,    \* fetch_jira_issue's local comment_response
    issue,               \* call_tool's local issue: what the fetch returned
    response,            \* the ToolCallResponse call_tool returned
    escaped,             \* the exception that left call_tool, if any
    exc,                 \* the exception raised inside call_tool's try block
    exc_from,            \* the component that raised it
    model_output,        \* the text the language model answers with
    log,                 \* history of component entries, calls and sleeps
    adf_node,            \* the items of the list adf_to_text is applied to
    adf_text,            \* what adf_to_text returned for it
    adf_expected         \* the leaves' text and the newlines, as items
                         \* were added and wrapped

vars == <<JIRA_BASE_URL, JIRA_EMAIL, JIRA_API_TOKEN, OPENAI_API_KEY,
          INTERNAL_API_TOKEN, request, pc, rt, issue_response,
          comment_response, issue, response, escaped, exc, exc_from,
          model_output, log, adf_node, adf_text, adf_expected>>

\* the variables of a run of adf_to_text on its own
flat == <<adf_node, adf_text, adf_expected>>

env == <<JIRA_BASE_URL, JIRA_EMAIL, JIRA_API_TOKEN, OPENAI_API_KEY,
         INTERNAL_API_TOKEN>>

-----------------------------------------------------------------------------
(* Bounds and program constants *)

\* largest `retries` the retry helper is run with on its own
MaxRetries == 4

\* with_retry(coro_factory, retries: int = 3, ...)
DefaultRetries == 3

\* with_retry(..., base_sleep: float = 0.5), in milliseconds
BaseSleepMs == 500

-----------------------------------------------------------------------------
(* Python values.  Every value is a record tagged by its type, so that     *)
(* None, strings, lists and dicts can be told apart.                       *)

PyNone == [t |-> "None"]

PyStr(s) == [t |-> "str", v |-> s]

PyList(seq) == [t |-> "list", v |-> seq]

PyDict(f) == [t |-> "dict", v |-> f]

EmptyDict == PyDict(<<>>)

\* a test that takes None alone as false
TruthyUnlessNone(v) == v.t # "None"

\* Python truthiness of a value: `not v` is ~Truthy(v)
Truthy(v) ==
    CASE v.t = "None" -> FALSE
      [] v.t = "str"  -> v.v # ""
      [] v.t = "list" -> v.v # <<>>
      [] v.t = "dict" -> DOMAIN v.v # {}
      [] OTHER        -> TRUE

\* str(v) as an f-string renders it
Format(v) ==
    CASE v.t = "None" -> "None"
      [] v.t = "str"  -> v.v
      [] OTHER        -> "<object>"

-----------------------------------------------------------------------------
(* Exceptions and outcomes of a call *)

NoExc == [type |-> "none", status_code |-> 0, msg |-> ""]

Exc(type, msg) == [type |-> type, status_code |-> 0, msg |-> msg]

HTTPException(status_code, detail) ==
    [type |-> "HTTPException", status_code |-> status_code, msg |-> detail]

AttributeError(v) ==
    Exc("AttributeError",
        (IF v.t = "None" THEN "'NoneType'" ELSE "'" \o v.t \o "'")
            \o " object has no attribute 'get'")

\* str(e): HTTPException renders as "<status_code>: <detail>", the others
\* as their message
Str(e) ==
    IF e.type = "HTTPException"
        THEN ToString(e.status_code) \o ": " \o e.msg
        ELSE e.msg

Return(v) == [ok |-> TRUE, v |-> v, exc |-> NoExc]

Raise(e) == [ok |-> FALSE, v |-> PyNone, exc |-> e]

\* d.get(k, default); raises AttributeError when d is not a dict
Get(d, k, default) ==
    IF d.t # "dict" THEN Raise(AttributeError(d))
    ELSE IF k \in DOMAIN d.v THEN Return(d.v[k])
    ELSE Return(default)

-----------------------------------------------------------------------------
(* adf_to_text *)

RECURSIVE adf_to_text(_)
RECURSIVE adf_join(_)
RECURSIVE adf_join_spaced(_)

\* a join that puts a space between the items
adf_join_spaced(items) ==
    IF items = <<>> THEN ""
    ELSE IF Tail(items) = <<>> THEN adf_to_text(Head(items))
    ELSE adf_to_text(Head(items)) \o " " \o adf_join_spaced(Tail(items))

adf_join(items) ==
    IF items = <<>> THEN ""
    ELSE adf_to_text(Head(items)) \o adf_join(Tail(items))

adf_to_text(node) ==
    IF ~Truthy(node) THEN ""
    ELSE IF node.t = "str" THEN node.v
    ELSE IF node.t = "list" THEN adf_join(node.v)
    ELSE LET node_type == Get(node, "type", PyNone).v
             child == adf_to_text(Get(node, "content", PyList(<<>>)).v)
         IN  IF node_type = PyStr("text")
                 THEN Get(node, "text", PyStr("")).v.v
             ELSE IF node_type = PyStr("hardBreak") THEN "\n"
             ELSE IF node_type = PyStr("paragraph") THEN child \o "\n"
             ELSE child

-----------------------------------------------------------------------------
(* with_retry *)

RtIdle ==
    [site |-> "none", retries |-> 0, i |-> 0, state |-> "idle",
     last_err |-> NoExc, result |-> PyNone, outcomes |-> <<>>]

\* entering with_retry: last_err = None, i = 0, and the first
\* coro_factory() is awaited
\* a loop that allows one attempt more than it was asked for
RtEnterOneMore(site, retries) ==
    [site |-> site, retries |-> retries + 1, i |-> 0, state |-> "inflight",
     last_err |-> NoExc, result |-> PyNone, outcomes |-> <<>>]

RtEnter(site, retries) ==
    [site |-> site, retries |-> retries, i |-> 0, state |-> "inflight",
     last_err |-> NoExc, result |-> PyNone, outcomes |-> <<>>]

RECURSIVE Pow2(_)
Pow2(n) == IF n = 0 THEN 1 ELSE 2 * Pow2(n - 1)

\* a delay that grows by base_sleep at each attempt instead of doubling
SleepMsLinear(i) == BaseSleepMs * (i + 1)

\* base_sleep * (2 ** i), in milliseconds
SleepMs(i) == BaseSleepMs * Pow2(i)

CallEv(site, i) == [ev |-> "call", site |-> site, n |-> i]

SleepEv(site, ms) == [ev |-> "sleep", site |-> site, n |-> ms]

ReturnedEv(site, i) == [ev |-> "returned", site |-> site, n |-> i]

RaisedEv(site, i) == [ev |-> "raised", site |-> site, n |-> i]

EnterEv(component) == [ev |-> "enter", site |-> component, n |-> 0]

\* the `if i < retries - 1` test before the sleep
SleepsAfter(i, retries) == i < retries - 1

\* a loop body that keeps the result and goes on while attempts remain
OnResultNoReturn(r, result) ==
    IF r.i + 1 < r.retries
        THEN [r EXCEPT !.i = r.i + 1, !.result = result]
        ELSE [r EXCEPT !.state = "returned", !.result = result]

\* a loop body that treats an answer with a status other than 200 as a
\* failed attempt while attempts remain
OnResultRetryStatus(r, result) ==
    IF "status_code" \in DOMAIN result /\ result.status_code # 200
           /\ r.i + 1 < r.retries
        THEN [r EXCEPT !.i = r.i + 1, !.result = result]
        ELSE [r EXCEPT !.state = "returned", !.result = result]

\* `return await coro_factory()`: the result of the attempt is returned
OnResult(r, result) == [r EXCEPT !.state = "returned", !.result = result]

\* raising the first error recorded instead of the last
RaisedFirstErr(r) == r.outcomes[1].exc

\* `raise last_err` when the loop is over
RaisedErr(r) == r.last_err

\* Results and errors an operation can end with, per call site.
NetErrors ==
    {Exc("ConnectError", "All connection attempts failed"),
     Exc("ReadTimeout", "The read operation timed out")}

OpResults == {PyStr("r1"), PyStr("r2")}

-----------------------------------------------------------------------------
(* The issue tracker's answers *)

HttpResponse(status_code, text, json) ==
    [status_code |-> status_code, text |-> text, json |-> json]

NoHttpResponse == HttpResponse(0, "", PyNone)

\* answers with a status other than 200, with their body text
ErrorResponses ==
    {HttpResponse(404, "Issue does not exist",
                  PyDict([errorMessages |->
                              PyList(<<PyStr("Issue does not exist")>>)])),
     HttpResponse(503, "{}", EmptyDict)}

OptionalFields == {"status", "priority", "assignee", "reporter", "description"}

\* how an optional field appears in the tracker's JSON
Shapes == {"missing", "null", "present"}

Text(s) == PyDict([type |-> PyStr("text"), text |-> PyStr(s)])

HardBreak == PyDict([type |-> PyStr("hardBreak")])

Paragraph(items) == PyDict([type |-> PyStr("paragraph"), content |-> PyList(items)])

Doc(items) == PyDict([type |-> PyStr("doc"), content |-> PyList(items)])

PresentValue(field) ==
    CASE field = "status"      -> PyDict([name |-> PyStr("Open")])
      [] field = "priority"    -> PyDict([name |-> PyStr("High")])
      [] field = "assignee"    -> PyDict([displayName |-> PyStr("Ann")])
      [] field = "reporter"    -> PyDict([displayName |-> PyStr("Bob")])
      [] field = "description" ->
             Doc(<<Paragraph(<<Text("a"), HardBreak, Text("b")>>)>>)

FixedFields == {"summary", "created", "updated", "labels"}

FixedValue(field) ==
    CASE field = "summary" -> PyStr("Crash on start")
      [] field = "created" -> PyStr("2024-01-01")
      [] field = "updated" -> PyStr("2024-01-02")
      [] field = "labels"  -> PyList(<<PyStr("bug")>>)

\* the issue JSON in which each optional field has the shape sh[field]
IssueJson(sh) ==
    LET keys == FixedFields \cup {k \in OptionalFields : sh[k] # "missing"}
    IN  PyDict([key |-> PyStr("K-1"),
                fields |-> PyDict([k \in keys |->
                    IF k \in FixedFields THEN FixedValue(k)
                    ELSE IF sh[k] = "null" THEN PyNone
                    ELSE PresentValue(k)])])

\* the shapes tried: every field alike, or one field unlike the others,
\* which are present
IssueShapes ==
    {sh \in [OptionalFields -> Shapes] :
        \/ \A k1, k2 \in OptionalFields : sh[k1] = sh[k2]
        \/ \E k1 \in OptionalFields :
              \A k2 \in OptionalFields \ {k1} : sh[k2] = "present"}

IssueResponses == {HttpResponse(200, "", IssueJson(sh)) : sh \in IssueShapes}

Comment ==
    PyDict([author |-> PyDict([displayName |-> PyStr("Cy")]),
            created |-> PyStr("2024-01-03"),
            body |-> Doc(<<Paragraph(<<Text("c")>>)>>)])

\* the comments JSON: a bare list of comments, or the tracker's page object
CommentJsons ==
    {PyList(<<>>), PyList(<<Comment>>),
     PyDict([startAt |-> PyStr("0"), comments |-> PyList(<<Comment>>)])}

CommentResponses == {HttpResponse(200, "", j) : j \in CommentJsons}

-----------------------------------------------------------------------------
(* Results and errors an operation can end with, per call site *)

Results(site) ==
    CASE site = "get_issue"    -> IssueResponses \cup ErrorResponses
      [] site = "get_comments" -> CommentResponses \cup ErrorResponses
      [] OTHER                 -> OpResults

Errors(site) == NetErrors

-----------------------------------------------------------------------------
(* Configuration *)

\* os.getenv("JIRA_BASE_URL", "").rstrip("/") on the values tried
RStripSlash(s) ==
    CASE s = "https://jira.example/" -> "https://jira.example"
      [] s = "/"                     -> ""
      [] OTHER                       -> s

BaseUrlEnv == {"", "/", "https://jira.example/", "https://jira.example"}

\* a client built whether or not the key is set
ClientAlwaysBuilt == TRUE

\* AsyncOpenAI(api_key=OPENAI_API_KEY) if OPENAI_API_KEY else None
openai_client == OPENAI_API_KEY # ""

\* a test of the base URL alone
MissingBaseUrlOnly == IF JIRA_BASE_URL = "" THEN <<"JIRA_BASE_URL">> ELSE <<>>

\* ensure_env: the names of the unset settings, in the order of the dict
Missing ==
    SelectSeq(<<"JIRA_BASE_URL", "JIRA_EMAIL", "JIRA_API_TOKEN">>,
              LAMBDA k : CASE k = "JIRA_BASE_URL"  -> JIRA_BASE_URL = ""
                           [] k = "JIRA_EMAIL"     -> JIRA_EMAIL = ""
                           [] k = "JIRA_API_TOKEN" -> JIRA_API_TOKEN = "")

RECURSIVE JoinComma(_)
JoinComma(names) ==
    IF names = <<>> THEN ""
    ELSE IF Len(names) = 1 THEN names[1]
    ELSE names[1] \o ", " \o JoinComma(Tail(names))

ensure_env ==
    IF Missing # <<>>
        THEN Raise(HTTPException(500,
                 "Missing environment variables: " \o JoinComma(Missing)))
        ELSE Return(PyNone)

-----------------------------------------------------------------------------
(* fetch_jira_issue, from the status checks to the returned dict *)

\* d.get(k, {}).get(sub)
GetSub(d, k, sub) ==
    LET a == Get(d, k, EmptyDict)
    IN  IF a.ok THEN Get(a.v, sub, PyNone) ELSE a

\* the elements a `for` loop takes from v: a list's items, a dict's keys
RECURSIVE KeysOf(_)
KeysOf(S) ==
    IF S = {} THEN <<>>
    ELSE LET k == CHOOSE k \in S : TRUE
         IN  <<PyStr(k)>> \o KeysOf(S \ {k})

Iterate(v) == IF v.t = "list" THEN v.v ELSE KeysOf(DOMAIN v.v)

\* one element of the "comments" list comprehension
CommentRecord(c) ==
    LET author == GetSub(c, "author", "displayName")
        created == Get(c, "created", PyNone)
        body == Get(c, "body", EmptyDict)
    IN  IF ~author.ok THEN author
        ELSE IF ~created.ok THEN created
        ELSE IF ~body.ok THEN body
        ELSE Return([author |-> author.v, created |-> created.v,
                     body |-> adf_to_text(body.v)])

RECURSIVE CommentRecords(_)
CommentRecords(items) ==
    IF items = <<>> THEN Return(<<>>)
    ELSE LET first == CommentRecord(Head(items))
             rest == CommentRecords(Tail(items))
         IN  IF ~first.ok THEN first
             ELSE IF ~rest.ok THEN rest
             ELSE Return(<<first.v>> \o rest.v)

\* the first outcome of the sequence that is a raise, or Return(PyNone)
RECURSIVE FirstRaise(_)
FirstRaise(outcomes) ==
    IF outcomes = <<>> THEN Return(PyNone)
    ELSE IF ~Head(outcomes).ok THEN Head(outcomes)
    ELSE FirstRaise(Tail(outcomes))

\* the dict built from the two JSON bodies; its entries are evaluated in
\* order and the first failing one raises
CanonicalIssue(issue_json, comments_json, issue_key) ==
    LET fields == Get(issue_json, "fields", EmptyDict)
        f == fields.v
        key == Get(issue_json, "key", PyNone)
        summary == Get(f, "summary", PyNone)
        status == GetSub(f, "status", "name")
        priority == GetSub(f, "priority", "name")
        assignee == GetSub(f, "assignee", "displayName")
        reporter == GetSub(f, "reporter", "displayName")
        created == Get(f, "created", PyNone)
        updated == Get(f, "updated", PyNone)
        labels == Get(f, "labels", PyList(<<>>))
        description == Get(f, "description", EmptyDict)
        recs == CommentRecords(Iterate(comments_json))
        bad == FirstRaise(<<fields, key, summary, status, priority, assignee, reporter,
                            created, updated, labels, description, recs>>)
    IN  IF ~bad.ok THEN bad
        ELSE Return([key |-> key.v, summary |-> summary.v,
                     status |-> status.v, priority |-> priority.v,
                     assignee |-> assignee.v, reporter |-> reporter.v,
                     created |-> created.v, updated |-> updated.v,
                     labels |-> labels.v,
                     description |-> adf_to_text(description.v),
                     comments |-> recs.v,
                     url |-> JIRA_BASE_URL \o "/browse/" \o issue_key])

\* the first status check
IssueStatusOk(issue_resp) == issue_resp.status_code = 200

\* the second status check left out
CommentStatusUnchecked(comment_resp) == TRUE

\* the second status check
CommentStatusOk(comment_resp) == comment_resp.status_code = 200

\* what fetch_jira_issue does once both with_retry calls have returned
FetchResult(issue_resp, comment_resp, issue_key) ==
    IF ~IssueStatusOk(issue_resp)
        THEN Raise(HTTPException(issue_resp.status_code,
                 "Failed to fetch issue: " \o issue_resp.text))
    ELSE IF ~CommentStatusOk(comment_resp)
        THEN Raise(HTTPException(comment_resp.status_code,
                 "Failed to fetch comments: " \o comment_resp.text))
    ELSE CanonicalIssue(issue_resp.json, comment_resp.json, issue_key)

-----------------------------------------------------------------------------
(* llm_summarize_issue *)

\* Raw model text is a sequence of tokens: the two fence markers, white
\* space, a run of other characters, or the text of one JSON value.
\* the code-fence marker followed by the word json
FenceJson == [k |-> "fence_json", v |-> PyNone]

\* the bare code-fence marker
Fence == [k |-> "fence", v |-> PyNone]

Ws == [k |-> "ws", v |-> PyNone]

Chars(s) == [k |-> "chars", v |-> PyStr(s)]

JsonText(value) == [k |-> "json", v |-> value]

NoText == <<Chars("<no output>")>>

FullObject ==
    PyDict([summary |-> PyStr("s"), root_cause |-> PyStr("r"),
            confidence |-> PyStr("high"), evidence |-> PyList(<<PyStr("e1")>>)])

BareObject == PyDict([summary |-> PyStr("s"), root_cause |-> PyStr("r")])

\* the texts the language model may answer with
ModelOutputs ==
    {<<Chars("not json")>>,
     <<>>,
     <<FenceJson, Ws, JsonText(FullObject), Ws, Fence>>,
     <<Ws, JsonText(BareObject)>>,
     <<JsonText(PyList(<<PyStr("s")>>))>>}

\* text.strip()
RECURSIVE LStrip(_)
LStrip(text) ==
    IF text # <<>> /\ Head(text) = Ws THEN LStrip(Tail(text)) ELSE text

RECURSIVE RStrip(_)
RStrip(text) ==
    IF text # <<>> /\ text[Len(text)] = Ws
        THEN RStrip(SubSeq(text, 1, Len(text) - 1))
        ELSE text

Strip(text) == RStrip(LStrip(text))

\* the two text.replace(marker, "") calls
RemoveFences(text) == SelectSeq(text, LAMBDA tok : tok # FenceJson /\ tok # Fence)

\* The module never imports json, so evaluating the name raises.
json == Raise(Exc("NameError", "name 'json' is not defined"))

\* json.loads(cleaned)
json_loads(cleaned) ==
    IF ~json.ok THEN json
    ELSE IF Len(cleaned) = 1 /\ cleaned[1].k = "json" THEN Return(cleaned[1].v)
    ELSE Raise(Exc("JSONDecodeError", "Expecting value"))

\* json.dumps(payload, ensure_ascii=False) inside the prompt's f-string
json_dumps(payload) ==
    IF ~json.ok THEN json ELSE Return(<<JsonText(payload)>>)

ParseFailed == <<Chars("LLM parse failed.")>>

UnableToParse == "Unable to parse structured root cause from model output."

Unavailable == "OpenAI key not configured; LLM analysis unavailable."

\* the `except Exception` branch of the parse
Degraded(text, issue_data) ==
    [summary |-> IF text # <<>> THEN text ELSE ParseFailed,
     root_cause |-> PyStr(UnableToParse),
     confidence |-> PyStr("low"),
     evidence |-> PyList(<<issue_data.key>>)]

\* from `text = (response.output_text or "").strip()` to the return
ParseOutput(output_text, issue_data) ==
    LET text == Strip(output_text)
        cleaned == Strip(RemoveFences(text))
        obj == json_loads(cleaned)
        summary == Get(obj.v, "summary", PyStr(""))
        root_cause == Get(obj.v, "root_cause", PyStr(""))
        confidence == Get(obj.v, "confidence", PyStr("low"))
        evidence == Get(obj.v, "evidence", PyList(<<>>))
    IN  IF obj.ok /\ summary.ok /\ root_cause.ok /\ confidence.ok /\ evidence.ok
            THEN [summary |-> summary.v, root_cause |-> root_cause.v,
                  confidence |-> confidence.v, evidence |-> evidence.v]
            ELSE Degraded(text, issue_data)

\* the `if not openai_client` branch
Template(issue_data) ==
    [summary |-> <<Chars(Format(issue_data.key) \o " is "
                         \o Format(issue_data.status) \o " with priority "
                         \o Format(issue_data.priority) \o ".")>>,
     root_cause |-> PyStr(Unavailable),
     confidence |-> PyStr("low"),
     evidence |-> PyList(<<issue_data.key>>)]

\* llm_summarize_issue up to its first await.  The prompt is built before
\* the model is called; output_text is what the model call would return.
llm_summarize_issue(issue_data, output_text) ==
    IF ~openai_client THEN Return(Template(issue_data))
    ELSE LET prompt == json_dumps([key |-> issue_data.key,
                                   summary |-> issue_data.summary,
                                   status |-> issue_data.status,
                                   priority |-> issue_data.priority,
                                   description |-> issue_data.description,
                                   comments |-> issue_data.comments])
         IN  IF ~prompt.ok THEN prompt
             ELSE Return(ParseOutput(output_text, issue_data))

-----------------------------------------------------------------------------
(* call_tool *)

ToolNames == {"fetch_jira", "fetch_and_summarize"}

ToolCallResponse(success, tool_name, result, error) ==
    [success |-> success, tool_name |-> tool_name, result |-> result,
     error |-> error]

NoResponse == ToolCallResponse(FALSE, "", PyNone, PyNone)

NoRequest ==
    [tool_name |-> "", issue_key |-> PyNone, x_internal_token |-> PyNone]

\* the requests tried: issue_key absent, empty or given; the header absent,
\* matching or not
Requests ==
    [tool_name : ToolNames \cup {"delete_issue"},
     issue_key : {PyNone, PyStr(""), PyStr("K-1")},
     x_internal_token : {PyNone, PyStr("s3cret"), PyStr("wrong")}]

\* a check that lets a request without the header through
UnauthorizedIfPresent(x_internal_token) ==
    /\ INTERNAL_API_TOKEN # ""
    /\ x_internal_token # PyNone
    /\ x_internal_token # PyStr(INTERNAL_API_TOKEN)

\* `INTERNAL_API_TOKEN and x_internal_token != INTERNAL_API_TOKEN`
Unauthorized(x_internal_token) ==
    INTERNAL_API_TOKEN # "" /\ x_internal_token # PyStr(INTERNAL_API_TOKEN)

\* a handler that catches ValueError alone
CatchesValueErrorOnly(e) == e.type = "ValueError"

\* `except Exception` catches every exception the try block can raise
Catches(e) == TRUE

\* the handler returns `resp`
Respond(resp) ==
    /\ response' = resp
    /\ pc' = "done"
    /\ UNCHANGED escaped

\* exception e, raised by `component`, propagates to call_tool's try block
Except(e, component) ==
    /\ exc' = e
    /\ exc_from' = component
    /\ pc' = "done"
    /\ IF Catches(e)
          THEN /\ response' = ToolCallResponse(FALSE, request.tool_name,
                                               PyNone, PyStr(Str(e)))
               /\ UNCHANGED escaped
          ELSE /\ escaped' = e
               /\ UNCHANGED response

\* FastAPI validates the body against ToolCallRequest before the handler
\* runs: a tool_name outside the Literal is answered 422 by the framework
parse_request ==
    /\ pc = "received"
    /\ pc' = IF request.tool_name \in ToolNames THEN "call_tool" ELSE "rejected"
    /\ UNCHANGED <<env, flat, request, rt, issue_response, comment_response, issue,
                   response, escaped, exc, exc_from, model_output, log>>

\* call_tool from its entry to its first await: the token check, the
\* issue_key check, the dispatch and fetch_jira_issue up to the first
\* client.get inside with_retry(get_issue)
call_tool ==
    /\ pc = "call_tool"
    /\ UNCHANGED <<env, flat, request, issue_response, comment_response, issue,
                   model_output>>
    /\ IF Unauthorized(request.x_internal_token)
          THEN /\ Respond(ToolCallResponse(FALSE, request.tool_name, PyNone,
                                           PyStr("Unauthorized")))
               /\ UNCHANGED <<rt, exc, exc_from, log>>
       ELSE IF ~Truthy(request.issue_key)
          THEN /\ Except(Exc("ValueError",
                             "Missing required parameter: issue_key"),
                         "call_tool")
               /\ UNCHANGED <<rt, log>>
       ELSE IF request.tool_name \notin ToolNames
          THEN /\ Except(Exc("ValueError",
                             "Unknown tool: " \o request.tool_name),
                         "call_tool")
               /\ UNCHANGED <<rt, log>>
       ELSE IF ~ensure_env.ok
          THEN /\ Except(ensure_env.exc, "fetch_jira_issue")
               /\ log' = Append(log, EnterEv("fetch_jira_issue"))
               /\ UNCHANGED rt
       ELSE /\ rt' = RtEnter("get_issue", DefaultRetries)
            /\ log' = log \o <<EnterEv("fetch_jira_issue"),
                               EnterEv("with_retry"), CallEv("get_issue", 0)>>
            /\ pc' = "get_issue"
            /\ UNCHANGED <<response, escaped, exc, exc_from>>

-----------------------------------------------------------------------------
(* with_retry *)

\* the awaited coro_factory() returns
AttemptReturns ==
    /\ rt.state = "inflight"
    /\ \E result \in Results(rt.site) :
          rt' = OnResult([rt EXCEPT !.outcomes = Append(rt.outcomes,
                                                       Return(result))],
                         result)
    /\ log' = log \o <<ReturnedEv(rt.site, rt.i)>>
                  \o IF rt'.state = "inflight"
                         THEN <<CallEv(rt.site, rt'.i)>> ELSE <<>>
    /\ UNCHANGED <<env, flat, request, pc, issue_response, comment_response, issue,
                   response, escaped, exc, exc_from, model_output>>

\* the loop goes on to attempt i + 1, or is over and last_err is raised
NextIteration(r, lg) ==
    IF r.i + 1 < r.retries
        THEN /\ rt' = [r EXCEPT !.i = r.i + 1, !.state = "inflight"]
             /\ log' = Append(lg, CallEv(r.site, r.i + 1))
        ELSE /\ rt' = [r EXCEPT !.state = "raised",
                                !.result = RaisedErr(r)]
             /\ log' = lg

\* the awaited coro_factory() raises
AttemptRaises ==
    /\ rt.state = "inflight"
    /\ \E e \in Errors(rt.site) :
          LET r == [rt EXCEPT !.last_err = e,
                                 !.outcomes = Append(rt.outcomes, Raise(e))]
              lg == Append(log, RaisedEv(rt.site, rt.i))
          IN  IF SleepsAfter(rt.i, rt.retries)
                  THEN /\ rt' = [r EXCEPT !.state = "sleeping"]
                       /\ log' = Append(lg, SleepEv(rt.site, SleepMs(rt.i)))
                  ELSE NextIteration(r, lg)
    /\ UNCHANGED <<env, flat, request, pc, issue_response, comment_response, issue,
                   response, escaped, exc, exc_from, model_output>>

\* asyncio.sleep is over
SleepElapses ==
    /\ rt.state = "sleeping"
    /\ NextIteration(rt, log)
    /\ UNCHANGED <<env, flat, request, pc, issue_response, comment_response, issue,
                   response, escaped, exc, exc_from, model_output>>

-----------------------------------------------------------------------------
(* fetch_jira_issue and the rest of call_tool *)

\* with_retry(get_issue) is over: its error propagates to call_tool, or
\* its result is kept and with_retry(get_comments) starts
after_get_issue ==
    /\ pc = "get_issue"
    /\ rt.state \in {"returned", "raised"}
    /\ UNCHANGED <<env, flat, request, comment_response, issue, model_output>>
    /\ IF rt.state = "raised"
          THEN /\ Except(rt.result, "fetch_jira_issue")
               /\ rt' = RtIdle
               /\ UNCHANGED <<issue_response, log>>
          ELSE /\ issue_response' = rt.result
               /\ rt' = RtEnter("get_comments", DefaultRetries)
               /\ log' = log \o <<EnterEv("with_retry"),
                                  CallEv("get_comments", 0)>>
               /\ pc' = "get_comments"
               /\ UNCHANGED <<response, escaped, exc, exc_from>>

\* a dispatch that runs the summarizer for either tool
DispatchSummarizeAlways(fetched, output_text) ==
    LET summary == llm_summarize_issue(fetched, output_text)
    IN  /\ issue' = fetched
        /\ log' = Append(log, EnterEv("llm_summarize_issue"))
        /\ model_output' = output_text
        /\ IF summary.ok
              THEN /\ Respond(ToolCallResponse(TRUE, request.tool_name,
                          [issue |-> fetched, analysis |-> summary.v], PyNone))
                   /\ UNCHANGED <<exc, exc_from>>
              ELSE Except(summary.exc, "llm_summarize_issue")

\* what call_tool does with the issue fetch_jira_issue returned; the
\* timestamp fetched_at is left out of the result
Dispatch(fetched, output_text) ==
    /\ issue' = fetched
    /\ IF request.tool_name = "fetch_jira"
          THEN /\ Respond(ToolCallResponse(TRUE, request.tool_name, fetched,
                                           PyNone))
               /\ UNCHANGED <<exc, exc_from, log, model_output>>
          ELSE LET summary == llm_summarize_issue(fetched, output_text)
               IN  /\ log' = Append(log, EnterEv("llm_summarize_issue"))
                   /\ model_output' = output_text
                   /\ IF summary.ok
                         THEN /\ Respond(ToolCallResponse(TRUE,
                                     request.tool_name,
                                     [issue |-> fetched, analysis |-> summary.v],
                                     PyNone))
                              /\ UNCHANGED <<exc, exc_from>>
                         ELSE Except(summary.exc, "llm_summarize_issue")

\* with_retry(get_comments) is over: its error propagates, or the two
\* status checks run, the issue is built and call_tool goes on with it
after_get_comments ==
    /\ pc = "get_comments"
    /\ rt.state \in {"returned", "raised"}
    /\ rt' = RtIdle
    /\ UNCHANGED <<env, flat, request, issue_response>>
    /\ IF rt.state = "raised"
          THEN /\ Except(rt.result, "fetch_jira_issue")
               /\ UNCHANGED <<comment_response, issue, log, model_output>>
          ELSE LET fetched == FetchResult(issue_response, rt.result,
                                          request.issue_key.v)
               IN  /\ comment_response' = rt.result
                   /\ IF ~fetched.ok
                       THEN /\ Except(fetched.exc, "fetch_jira_issue")
                            /\ UNCHANGED <<issue, log, model_output>>
                       ELSE \E output_text \in
                                IF openai_client
                                       /\ request.tool_name # "fetch_jira"
                                    THEN ModelOutputs ELSE {NoText} :
                                Dispatch(fetched.v, output_text)

-----------------------------------------------------------------------------
(* Specifications *)

Init ==
    /\ JIRA_BASE_URL \in {RStripSlash(u) : u \in BaseUrlEnv}
    /\ JIRA_EMAIL \in {"", "bot@example.com"}
    /\ JIRA_API_TOKEN \in {"", "jira-token"}
    /\ OPENAI_API_KEY \in {"", "sk-key"}
    /\ INTERNAL_API_TOKEN \in {"", "s3cret"}
    /\ request \in Requests
    /\ pc = "received"
    /\ rt = RtIdle
    /\ issue_response = NoHttpResponse
    /\ comment_response = NoHttpResponse
    /\ issue = PyNone
    /\ response = NoResponse
    /\ escaped = NoExc
    /\ exc = NoExc
    /\ exc_from = "none"
    /\ model_output = NoText
    /\ log = <<>>
    /\ adf_node = <<>>
    /\ adf_text = PyNone
    /\ adf_expected = ""

Next ==
    \/ parse_request
    \/ call_tool
    \/ AttemptReturns
    \/ AttemptRaises
    \/ SleepElapses
    \/ after_get_issue
    \/ after_get_comments

Spec == Init /\ [][Next]_vars

\* the step after_get_comments, told by its guard and by what it always
\* does to pc
after_get_comments_ends ==
    /\ pc = "get_comments"
    /\ rt.state \in {"returned", "raised"}
    /\ pc' = "done"

\* one request, when every attempt ends (it returns or it raises), every
\* sleep ends, and the handler's code between two awaits runs on
SpecLive ==
    /\ Spec
    /\ WF_vars(AttemptReturns \/ AttemptRaises)
    /\ WF_vars(SleepElapses)
    /\ WF_vars(parse_request \/ call_tool \/ after_get_issue)
    /\ WF_pc(after_get_comments_ends)

\* with_retry run on its own, on an operation that returns or raises at
\* each attempt, with every `retries` from 1 to MaxRetries
InitRetry ==
    /\ JIRA_BASE_URL = ""
    /\ JIRA_EMAIL = ""
    /\ JIRA_API_TOKEN = ""
    /\ OPENAI_API_KEY = ""
    /\ INTERNAL_API_TOKEN = ""
    /\ request = NoRequest
    /\ pc = "with_retry"
    /\ \E n \in 1..MaxRetries : rt = RtEnter("op", n)
    /\ issue_response = NoHttpResponse
    /\ comment_response = NoHttpResponse
    /\ issue = PyNone
    /\ response = NoResponse
    /\ escaped = NoExc
    /\ exc = NoExc
    /\ exc_from = "none"
    /\ model_output = NoText
    /\ log = <<EnterEv("with_retry"), CallEv("op", 0)>>
    /\ adf_node = <<>>
    /\ adf_text = PyNone
    /\ adf_expected = ""

NextRetry ==
    \/ AttemptReturns
    \/ AttemptRaises
    \/ SleepElapses

SpecRetry == InitRetry /\ [][NextRetry]_vars

-----------------------------------------------------------------------------
(* adf_to_text run on its own, on trees built one step at a time *)

\* the deepest nesting of containers in the trees adf_to_text is run on
MaxDepth == 2

\* the most leaves in the trees adf_to_text is run on
MaxLeaves == 3

\* the text of the text node that can come as leaf number j + 1
Letter(j) == <<"a", "b", "c">>[(j % 3) + 1]

\* the leaves that can come after j leaves, each with the text it stands
\* for: a text node or a hardBreak
AdfLeaves(j) ==
    {[node |-> Text(Letter(j)), text |-> Letter(j)],
     [node |-> HardBreak, text |-> "\n"]}

\* the types of the containers a tree is built from
ContainerTypes == {"paragraph", "doc"}

\* a node of type `type` around `items`
Container(type, items) ==
    PyDict([type |-> PyStr(type), content |-> PyList(items)])

\* what closes the text of a container of type `type`
Closing(type) == IF type = "paragraph" THEN "\n" ELSE ""

\* levels of containers in a list of nodes and in a node
RECURSIVE DepthOfItems(_)
RECURSIVE DepthOf(_)

DepthOfItems(items) ==
    IF items = <<>> THEN 0
    ELSE LET h == DepthOf(Head(items))
             t == DepthOfItems(Tail(items))
         IN  IF h > t THEN h ELSE t

DepthOf(node) ==
    IF node.t = "dict" /\ "content" \in DOMAIN node.v
        THEN 1 + DepthOfItems(node.v.content.v)
        ELSE 0

\* the leaves in a list of nodes and in a node
RECURSIVE LeavesOfItems(_)
RECURSIVE LeavesOf(_)

LeavesOfItems(items) ==
    IF items = <<>> THEN 0
    ELSE LeavesOf(Head(items)) + LeavesOfItems(Tail(items))

LeavesOf(node) ==
    IF node.t = "dict" /\ "content" \in DOMAIN node.v
        THEN LeavesOfItems(node.v.content.v)
        ELSE 1

\* everything but the variables of the run of adf_to_text
handler == <<env, request, pc, rt, issue_response, comment_response, issue,
             response, escaped, exc, exc_from, model_output, log>>

\* one more leaf at the end of the list
AddLeaf ==
    /\ adf_text = PyNone
    /\ LeavesOfItems(adf_node) < MaxLeaves
    /\ \E l \in AdfLeaves(LeavesOfItems(adf_node)) :
          /\ adf_node' = Append(adf_node, l.node)
          /\ adf_expected' = adf_expected \o l.text
    /\ UNCHANGED <<handler, adf_text>>

\* the whole list becomes the content of one container
WrapAll ==
    /\ adf_text = PyNone
    /\ DepthOfItems(adf_node) < MaxDepth
    /\ \E type \in ContainerTypes :
          /\ adf_node' = <<Container(type, adf_node)>>
          /\ adf_expected' = adf_expected \o Closing(type)
    /\ UNCHANGED <<handler, adf_text>>

\* the leaf that ends a list of several items becomes the content of a
\* container
WrapLast ==
    /\ adf_text = PyNone
    /\ Len(adf_node) > 1
    /\ DepthOf(adf_node[Len(adf_node)]) = 0
    /\ \E type \in ContainerTypes :
          /\ adf_node' = [adf_node EXCEPT ![Len(adf_node)] =
                              Container(type, <<@>>)]
          /\ adf_expected' = adf_expected \o Closing(type)
    /\ UNCHANGED <<handler, adf_text>>

\* adf_to_text(adf_node)
flatten ==
    /\ adf_text = PyNone
    /\ adf_text' = PyStr(adf_to_text(PyList(adf_node)))
    /\ UNCHANGED <<handler, adf_node, adf_expected>>

InitFlatten ==
    /\ JIRA_BASE_URL = ""
    /\ JIRA_EMAIL = ""
    /\ JIRA_API_TOKEN = ""
    /\ OPENAI_API_KEY = ""
    /\ INTERNAL_API_TOKEN = ""
    /\ request = NoRequest
    /\ pc = "adf_to_text"
    /\ rt = RtIdle
    /\ issue_response = NoHttpResponse
    /\ comment_response = NoHttpResponse
    /\ issue = PyNone
    /\ response = NoResponse
    /\ escaped = NoExc
    /\ exc = NoExc
    /\ exc_from = "none"
    /\ model_output = NoText
    /\ log = <<>>
    /\ adf_node = <<>>
    /\ adf_text = PyNone
    /\ adf_expected = ""

NextFlatten ==
    \/ AddLeaf
    \/ WrapAll
    \/ WrapLast
    \/ flatten

SpecFlatten == InitFlatten /\ [][NextFlatten]_vars

-----------------------------------------------------------------------------
(* Properties *)

\* number of events of kind ev logged for a call site or component
Count(ev, site) ==
    Cardinality({j \in DOMAIN log : log[j].ev = ev /\ log[j].site = site})

\* the calls and sleeps of a call site, in order
CallsAndSleeps(site) ==
    SelectSeq(log, LAMBDA e : e.site = site /\ e.ev \in {"call", "sleep"})

AllRaised(outcomes) == \A j \in DOMAIN outcomes : ~outcomes[j].ok

\* C2: when the operation raises on every one of the n = retries attempts,
\* with_retry has invoked it exactly n times, has slept exactly n - 1 times,
\* once between each two consecutive attempts and not after the last one,
\* and raises the error of attempt n; it never invokes it more than n times.
C2_AllAttemptsFail ==
    /\ rt.state # "idle" => Count("call", rt.site) <= rt.retries
    /\ (rt.state # "idle" /\ Len(rt.outcomes) = rt.retries
            /\ AllRaised(rt.outcomes))
       => /\ rt.state = "raised"
          /\ Count("call", rt.site) = rt.retries
          /\ Count("sleep", rt.site) = rt.retries - 1
          /\ LET cs == CallsAndSleeps(rt.site)
             IN  /\ Len(cs) = 2 * rt.retries - 1
                 /\ \A j \in DOMAIN cs :
                       cs[j].ev = IF j % 2 = 1 THEN "call" ELSE "sleep"
          /\ rt.result = rt.outcomes[rt.retries].exc

\* three attempts fail with the first error unlike the last
C2_Witness ==
    /\ rt.site = "op"
    /\ rt.state = "raised"
    /\ rt.retries = 3
    /\ rt.outcomes[1].exc # rt.outcomes[3].exc

\* C3: when attempts 1..k-1 raise and attempt k returns, with_retry returns
\* the result of attempt k at once: the operation has been invoked exactly k
\* times, and no call and no sleep of that call site follows the success.
C3_SuccessReturnsAtOnce ==
    /\ \A j \in DOMAIN log :
          log[j].ev = "returned"
          => \A m \in DOMAIN log : m > j => log[m].site # log[j].site
    /\ (rt.state # "idle" /\ rt.outcomes # <<>>
            /\ rt.outcomes[Len(rt.outcomes)].ok)
       => LET k == Len(rt.outcomes)
          IN  /\ rt.state = "returned"
              /\ rt.result = rt.outcomes[k].v
              /\ AllRaised(SubSeq(rt.outcomes, 1, k - 1))
              /\ Count("call", rt.site) = k
              /\ k <= rt.retries

\* success at the third attempt of three, and at the first of four
C3_Witness ==
    /\ rt.site = "op"
    /\ rt.state = "returned"
    /\ \/ rt.retries = 3 /\ Len(rt.outcomes) = 3
       \/ rt.retries = 4 /\ Len(rt.outcomes) = 1

Failure(e) == ToolCallResponse(FALSE, request.tool_name, PyNone, PyStr(Str(e)))

\* C1: an exception raised by fetch_jira_issue or llm_summarize_issue never
\* leaves call_tool: the handler ends with the response success = false,
\* error = str(exception), result = None.
C1_ExceptionsBecomeEnvelopes ==
    /\ escaped = NoExc
    /\ exc_from \in {"fetch_jira_issue", "llm_summarize_issue"}
       => /\ pc = "done"
          /\ exc # NoExc
          /\ response = Failure(exc)

\* a network error on all three attempts of the comments call ends as an
\* envelope carrying its message
C1_Witness ==
    /\ exc_from = "fetch_jira_issue"
    /\ exc.type = "ReadTimeout"
    /\ Count("call", "get_comments") = DefaultRetries
    /\ response.success = FALSE
    /\ response.error = PyStr("The read operation timed out")

FetchError(resp, what) ==
    HTTPException(resp.status_code, "Failed to fetch " \o what \o ": " \o resp.text)

\* C4: once the metadata call has returned a status other than 200,
\* fetch_jira_issue fails with the HTTPException carrying that status and
\* body text, whatever the comments call ends with; and a comments answer
\* other than 200 after a metadata 200 fails with the comments status and
\* body text.
C4_NonOkStatusIsFetchError ==
    pc = "done"
    => /\ issue_response.status_code \notin {0, 200}
          => exc = FetchError(issue_response, "issue")
       /\ (issue_response.status_code = 200
              /\ comment_response.status_code \notin {0, 200})
          => exc = FetchError(comment_response, "comments")

\* C5: fetch_jira_issue returns an issue only when both answers had status
\* 200; a comments answer with another status after a metadata 200 ends the
\* request without any issue in the response.
C5_IssueOnlyWhenBoth200 ==
    /\ (issue # PyNone \/ response.success)
       => /\ issue_response.status_code = 200
          /\ comment_response.status_code = 200
    /\ comment_response.status_code \notin {0, 200}
       => /\ pc = "done"
          /\ issue = PyNone
          /\ ~response.success
          /\ response.result = PyNone

\* the comments call answers 404 after a metadata 200
C5_Witness ==
    /\ pc = "done"
    /\ issue_response.status_code = 200
    /\ comment_response.status_code = 404
    /\ issue = PyNone
    /\ ~response.success

\* C6 as claimed: a tracker call answered with a status other than 200 is
\* attempted DefaultRetries times before the request fails.
C6_NonOkStatusRetried ==
    /\ (pc = "done" /\ issue_response.status_code \notin {0, 200})
       => Count("call", "get_issue") = DefaultRetries
    /\ (pc = "done" /\ comment_response.status_code \notin {0, 200})
       => Count("call", "get_comments") = DefaultRetries

\* the last event logged for a call site
LastEvent(site) ==
    LET evs == SelectSeq(log, LAMBDA e : e.site = site) IN evs[Len(evs)]

\* C6 amended: an answer with a status other than 200 is the result of
\* with_retry: the attempt that got it is the last of its call, no sleep and
\* no further attempt follows it, and the request ends without success.
\* Only attempts that raise are repeated: a network error reaches call_tool
\* only after DefaultRetries attempts, each but the last followed by a sleep.
C6_NonOkStatusNotRetried ==
    /\ \A site \in {"get_issue", "get_comments"} :
          LET resp == IF site = "get_issue" THEN issue_response
                                            ELSE comment_response
          IN  resp.status_code \notin {0, 200}
              => /\ LastEvent(site).ev = "returned"
                 /\ Count("returned", site) = 1
                 /\ Count("call", site) = Count("raised", site) + 1
                 /\ Count("sleep", site) = Count("raised", site)
                 /\ pc = "done" => ~response.success
    /\ (pc = "done" /\ exc \in NetErrors)
       => \E site \in {"get_issue", "get_comments"} :
             /\ LastEvent(site).ev = "raised"
             /\ Count("raised", site) = DefaultRetries
             /\ Count("call", site) = DefaultRetries
             /\ Count("sleep", site) = DefaultRetries - 1

\* a 404 at the second attempt of the metadata call, after one network error
C6_Witness ==
    /\ pc = "done"
    /\ issue_response.status_code = 404
    /\ Count("call", "get_issue") = 2
    /\ Count("raised", "get_issue") = 1
    /\ ~response.success

\* the summarizer was entered with the issue the fetch returned
Summarized == Count("enter", "llm_summarize_issue") = 1

\* the JSON object the stripped, fence-free text holds, or None
JsonObjectIn(text) ==
    LET cleaned == Strip(RemoveFences(Strip(text)))
    IN  IF Len(cleaned) = 1 /\ cleaned[1].k = "json" /\ cleaned[1].v.t = "dict"
            THEN cleaned[1].v
            ELSE PyNone

KeyOr(obj, k, default) == IF k \in DOMAIN obj.v THEN obj.v[k] ELSE default

\* C7: with a key configured, model text that holds no JSON object gives the
\* analysis summary = the text (or the parse-failed notice when it is
\* empty), root_cause = the unable-to-parse notice, confidence = "low",
\* evidence = [issue key], and the summarizer does not raise.
C7_UnparseableDegrades ==
    (pc = "done" /\ Summarized /\ openai_client
        /\ JsonObjectIn(model_output) = PyNone)
    => /\ exc_from # "llm_summarize_issue"
       /\ response.success
       /\ response.result.analysis =
              [summary |-> IF Strip(model_output) = <<>> THEN ParseFailed
                           ELSE Strip(model_output),
               root_cause |-> PyStr(UnableToParse),
               confidence |-> PyStr("low"),
               evidence |-> PyList(<<issue.key>>)]

\* C8: with a key configured, model text that holds a JSON object, fenced or
\* not, gives the analysis made of the object's summary, root_cause,
\* confidence and evidence, confidence defaulting to "low" and evidence to
\* the empty list.
C8_ObjectIsMapped ==
    (pc = "done" /\ Summarized /\ openai_client
        /\ JsonObjectIn(model_output) # PyNone)
    => /\ response.success
       /\ LET obj == JsonObjectIn(model_output)
          IN  response.result.analysis =
                  [summary |-> KeyOr(obj, "summary", PyStr("")),
                   root_cause |-> KeyOr(obj, "root_cause", PyStr("")),
                   confidence |-> KeyOr(obj, "confidence", PyStr("low")),
                   evidence |-> KeyOr(obj, "evidence", PyList(<<>>))]

\* C9: with no key configured the summarizer returns, without entering
\* with_retry or calling the network, the analysis confidence = "low",
\* evidence = [issue key], root_cause = the unavailable notice and the
\* summary made of the issue's key, status and priority.
C9_NoKeyTemplate ==
    (Summarized /\ OPENAI_API_KEY = "")
    => /\ pc = "done"
       /\ log[Len(log)] = EnterEv("llm_summarize_issue")
       /\ Count("enter", "with_retry") = 2
       /\ \A j \in DOMAIN log :
             log[j].ev = "call" => log[j].site \in {"get_issue", "get_comments"}
       /\ exc = NoExc
       /\ response.success
       /\ response.result.issue = issue
       /\ response.result.analysis =
              [summary |-> <<Chars(Format(issue.key) \o " is "
                                   \o Format(issue.status) \o " with priority "
                                   \o Format(issue.priority) \o ".")>>,
               root_cause |->
                   PyStr("OpenAI key not configured; LLM analysis unavailable."),
               confidence |-> PyStr("low"),
               evidence |-> PyList(<<issue.key>>)]

\* no key, and an issue whose status is missing from the tracker's answer
C9_Witness ==
    /\ Summarized
    /\ OPENAI_API_KEY = ""
    /\ issue.status = PyNone
    /\ response.success
    /\ response.result.analysis.summary
           = <<Chars("K-1 is None with priority High.")>>

\* C10: with INTERNAL_API_TOKEN set and the header absent or different, the
\* handler answers success = false, error = "Unauthorized" and enters no
\* component, also when issue_key is missing.
C10_UnauthorizedFirst ==
    (INTERNAL_API_TOKEN # ""
        /\ request.x_internal_token # PyStr(INTERNAL_API_TOKEN))
    => /\ log = <<>>
       /\ rt = RtIdle
       /\ exc = NoExc
       /\ pc \in {"received", "rejected", "call_tool", "done"}
       /\ pc = "done"
          => response = ToolCallResponse(FALSE, request.tool_name, PyNone,
                                         PyStr("Unauthorized"))

\* the header is absent and issue_key is missing too
C10_Witness ==
    /\ pc = "done"
    /\ INTERNAL_API_TOKEN = "s3cret"
    /\ request.x_internal_token = PyNone
    /\ request.issue_key = PyNone
    /\ response.error = PyStr("Unauthorized")

\* the handler has let the request past the token check
Authorized ==
    INTERNAL_API_TOKEN = ""
    \/ request.x_internal_token = PyStr(INTERNAL_API_TOKEN)

\* the request is answered: by call_tool, or by the framework's validation
Answered == pc \in {"done", "rejected"}

\* C11: a request whose tool_name is neither fetch_jira nor
\* fetch_and_summarize is answered with the envelope success = false and an
\* error text, and enters neither the fetcher nor the summarizer.
C11_UnknownToolEnvelope ==
    request.tool_name \notin ToolNames
    => /\ Count("enter", "fetch_jira_issue") = 0
       /\ Count("enter", "llm_summarize_issue") = 0
       /\ Answered
          => /\ response.success = FALSE
             /\ response.tool_name = request.tool_name
             /\ response.error # PyNone

\* C12: an authorized request without issue_key, or with an empty one, is
\* answered success = false with the error naming the missing parameter,
\* whichever tool it names, and enters no component and makes no call.
C12_MissingIssueKey ==
    (Authorized /\ request.issue_key \in {PyNone, PyStr("")})
    => /\ log = <<>>
       /\ rt = RtIdle
       /\ pc \in {"received", "rejected", "call_tool", "done"}
       /\ pc = "done"
          => response = ToolCallResponse(FALSE, request.tool_name, PyNone,
                            PyStr("Missing required parameter: issue_key"))

\* an empty issue_key with the matching token, for fetch_and_summarize
C12_Witness ==
    /\ pc = "done"
    /\ INTERNAL_API_TOKEN = "s3cret"
    /\ request.x_internal_token = PyStr("s3cret")
    /\ request.issue_key = PyStr("")
    /\ request.tool_name = "fetch_and_summarize"
    /\ response.error = PyStr("Missing required parameter: issue_key")

\* C13: fetch_jira enters the fetcher once and never the summarizer;
\* fetch_and_summarize enters the fetcher first and the summarizer only once
\* the fetch has returned an issue, so never after a failed fetch; and
\* success = true is answered only when every component entered has returned.
C13_DispatchOrder ==
    /\ Count("enter", "fetch_jira_issue") <= 1
    /\ Count("enter", "llm_summarize_issue") <= 1
    /\ request.tool_name = "fetch_jira"
       => Count("enter", "llm_summarize_issue") = 0
    /\ Summarized
       => /\ request.tool_name = "fetch_and_summarize"
          /\ issue # PyNone
          /\ exc_from # "fetch_jira_issue"
          /\ log[1] = EnterEv("fetch_jira_issue")
          /\ log[Len(log)] = EnterEv("llm_summarize_issue")
          /\ LastEvent("get_issue").ev = "returned"
          /\ LastEvent("get_comments").ev = "returned"
    /\ exc_from = "fetch_jira_issue" => (~Summarized /\ issue = PyNone)
    /\ response.success
       => /\ pc = "done"
          /\ exc = NoExc
          /\ Count("enter", "fetch_jira_issue") = 1
          /\ issue # PyNone
          /\ IF request.tool_name = "fetch_jira"
                THEN response.result = issue
                ELSE /\ Summarized
                     /\ response.result.issue = issue

\* fetch_and_summarize answered with success after a retried comments call
C13_Witness ==
    /\ response.success
    /\ request.tool_name = "fetch_and_summarize"
    /\ Summarized
    /\ Count("call", "get_comments") = 2

\* C14: with the base URL, the e-mail or the API token unset, the fetcher,
\* once entered, fails with the HTTPException of ensure_env before any call
\* to the tracker, and with_retry is never entered.
C14_UnsetSettingFailsFirst ==
    (Count("enter", "fetch_jira_issue") > 0
        /\ (JIRA_BASE_URL = "" \/ JIRA_EMAIL = "" \/ JIRA_API_TOKEN = ""))
    => /\ pc = "done"
       /\ log = <<EnterEv("fetch_jira_issue")>>
       /\ rt = RtIdle
       /\ issue_response = NoHttpResponse
       /\ comment_response = NoHttpResponse
       /\ exc_from = "fetch_jira_issue"
       /\ exc.type = "HTTPException"
       /\ exc.status_code = 500
       /\ ~response.success
       /\ response.result = PyNone

\* the e-mail and the API token are unset, the base URL is set
C14_Witness ==
    /\ pc = "done"
    /\ JIRA_BASE_URL # ""
    /\ JIRA_EMAIL = ""
    /\ JIRA_API_TOKEN = ""
    /\ exc = HTTPException(500,
           "Missing environment variables: JIRA_EMAIL, JIRA_API_TOKEN")
    /\ response.error = PyStr(
           "500: Missing environment variables: JIRA_EMAIL, JIRA_API_TOKEN")

\* C15: every event of the comments call comes after every event of the
\* metadata call, and once the metadata call has failed, by raising on
\* every attempt or by an answer with a status other than 200, no comments
\* call is made.
C15_SequentialFailFast ==
    /\ \A j, m \in DOMAIN log :
          (log[j].site = "get_issue" /\ log[m].site = "get_comments") => j < m
    /\ Count("call", "get_comments") > 0
       => LastEvent("get_issue").ev = "returned"
    /\ (Count("raised", "get_issue") = DefaultRetries
           \/ issue_response.status_code \notin {0, 200})
       => Count("call", "get_comments") = 0

\* the sleeps of a call site, in order
Sleeps(site) ==
    SelectSeq(log, LAMBDA e : e.site = site /\ e.ev = "sleep")

\* C16: the sleep after the failure of attempt i (when attempts remain)
\* lasts base_sleep * 2^i: the first one is base_sleep and each later one
\* is exactly twice the one before; a sleep comes right after the failure
\* of the attempt it follows, and attempt i + 1 starts only once the sleep
\* after attempt i is over.
C16_BackoffDoubles ==
    /\ \A s \in {rt.site} :
          LET sl == Sleeps(s)
          IN  /\ Len(sl) > 0 => sl[1].n = BaseSleepMs
              /\ \A k \in 1..(Len(sl) - 1) : sl[k + 1].n = 2 * sl[k].n
              /\ Len(sl) = Count("raised", s)
                              - (IF rt.state = "raised" THEN 1 ELSE 0)
    /\ \A j \in DOMAIN log :
          /\ log[j].ev = "sleep"
             => /\ j > 1
                /\ log[j - 1].ev = "raised"
                /\ log[j - 1].site = log[j].site
                /\ log[j].n = BaseSleepMs * (2 ^ log[j - 1].n)
          /\ (log[j].ev = "call" /\ log[j].n > 0)
             => /\ log[j - 1].ev = "sleep"
                /\ log[j - 1].site = log[j].site
                /\ log[j - 2] = RaisedEv(log[j].site, log[j].n - 1)
    /\ rt.state = "sleeping"
       => /\ log[Len(log)].ev = "sleep"
          /\ Count("call", rt.site) = rt.i + 1

\* three failures in a row: sleeps of 500 ms, 1000 ms and 2000 ms, and
\* the fourth attempt is in flight
C16_Witness ==
    /\ rt.state = "inflight"
    /\ rt.i = 3
    /\ Sleeps(rt.site) = <<SleepEv(rt.site, 500), SleepEv(rt.site, 1000),
                           SleepEv(rt.site, 2000)>>

\* k paragraphs, one inside the other, around `items`
RECURSIVE Nested(_, _)
Nested(k, items) ==
    IF k = 0 THEN items ELSE <<Container("paragraph", Nested(k - 1, items))>>

\* k newlines
RECURSIVE Newlines(_)
Newlines(k) == IF k = 0 THEN "" ELSE "\n" \o Newlines(k - 1)

\* the nodes of a list of nodes and of a node, whatever their level
RECURSIVE NodesOfItems(_)
RECURSIVE NodesOf(_)

NodesOfItems(items) ==
    IF items = <<>> THEN <<>>
    ELSE NodesOf(Head(items)) \o NodesOfItems(Tail(items))

NodesOf(node) ==
    <<node>> \o (IF node.t = "dict" /\ "content" \in DOMAIN node.v
                    THEN NodesOfItems(node.v.content.v)
                    ELSE <<>>)

\* how many nodes of the tree have the type `type`
NodesOfType(type) ==
    Len(SelectSeq(NodesOfItems(adf_node),
                  LAMBDA n : n.v.type = PyStr(type)))

\* C17: adf_to_text returns the text of the leaves in order with nothing
\* between them, one newline for each hardBreak and one newline after the
\* content of each paragraph, and nothing else: k paragraphs, one inside
\* the other, around "a", "b", "c" give "abc" and k newlines.
C17_FlattenConcatenates ==
    adf_text # PyNone
    => /\ adf_text.t = "str"
       /\ adf_text.v = adf_expected
       /\ Len(adf_text.v) = NodesOfType("text") + NodesOfType("hardBreak")
                               + NodesOfType("paragraph")
       /\ \A k \in 0..MaxDepth :
             adf_node = Nested(k, <<Text("a"), Text("b"), Text("c")>>)
             => adf_text.v = "abc" \o Newlines(k)

\* two paragraphs, one inside the other, around "a", "b", "c" were
\* flattened to "abc" and two newlines
C17_Witness ==
    /\ adf_node = <<Paragraph(<<Paragraph(<<Text("a"), Text("b"),
                                             Text("c")>>)>>)>>
    /\ adf_text = PyStr("abc\n\n")

C19_OptionalFieldsTolerated ==
    (/\ pc = "done"
     /\ issue_response.status_code = 200
     /\ comment_response.status_code = 200
     /\ comment_response.json.t = "list")
    => /\ exc_from # "fetch_jira_issue"
       /\ issue # PyNone
       /\ LET f == issue_response.json.v.fields.v
              Absent(k) == k \notin DOMAIN f \/ f[k] = PyNone
          IN  /\ \A k \in OptionalFields \ {"description"} :
                    Absent(k) => issue[k] = PyNone
              /\ Absent("description") => issue.description = ""

====
